---- MODULE Spec2Model ----
(***************************************************************************)
(* Model of src/lp_dashboard.py: one execution of the dashboard script on  *)
(* an uploaded execution-statistics report.  The script is a straight line *)
(* of steps (read, validate, normalise, filter, best/worst, KPI cards,     *)
(* ranking table, download); st.stop() and an uncaught exception both end  *)
(* the run.                                                                *)
(*                                                                         *)
(* Text is a sequence of one-character strings, <<"9","%">> for "9%".      *)
(* The cell alphabet of the model has digits, a sign, the decorations      *)
(* % m s $ , and lower-case letters; it has no decimal point, exponent,    *)
(* underscore or blank, so a finite float is an integer here.  Row labels  *)
(* are 1..n (pandas: 0..n-1).                                              *)
(***************************************************************************)
EXTENDS Integers, Sequences, FiniteSets, TLC

\* bound of the model: the largest number of data rows of an uploaded table
MaxRows == 2

(***************************************************************************)
(* Floats                                                                  *)
(***************************************************************************)
Num(n) == [k |-> "num", v |-> n]
NaN == [k |-> "nan", v |-> 0]
Inf(sign) == [k |-> "inf", v |-> sign]

IsFinite(x) == x.k = "num"

\* position of a non-NaN float among -inf < finite < +inf
FloatClass(x) == IF x.k = "num" THEN 1 ELSE IF x.v < 0 THEN 0 ELSE 2

\* IEEE "<": false whenever a NaN is involved
FloatLt(a, b) ==
    /\ a.k # "nan"
    /\ b.k # "nan"
    /\ \/ FloatClass(a) < FloatClass(b)
       \/ FloatClass(a) = 1 /\ FloatClass(b) = 1 /\ a.v < b.v

(***************************************************************************)
(* Text helpers                                                            *)
(***************************************************************************)
\* the missing value pandas puts in a blank cell, for a text cell and for a
\* symbol
NA == <<"<NA>">>
NASymbol == "<NA>"
\* what st.selectbox returns when it has no options
NoneSymbol == "<None>"

Digits == <<"0", "1", "2", "3", "4", "5", "6", "7", "8", "9">>

IsDigit(c) == c \in {"0", "1", "2", "3", "4", "5", "6", "7", "8", "9"}

DigitVal(c) == (CHOOSE i \in 1..Len(Digits) : Digits[i] = c) - 1

\* Series.astype(str): a missing value becomes the text "nan"
AsStr(cell) == IF cell = NA THEN <<"n", "a", "n">> ELSE cell

IsPrefix(p, s) == Len(p) <= Len(s) /\ \A i \in 1..Len(p) : s[i] = p[i]

RECURSIVE StrReplace(_, _)
\* Series.str.replace(pat, ""): every non-overlapping occurrence of pat,
\* left to right, is removed
StrReplace(s, pat) ==
    IF s = <<>> THEN <<>>
    ELSE IF IsPrefix(pat, s) THEN StrReplace(SubSeq(s, Len(pat) + 1, Len(s)), pat)
    ELSE <<Head(s)>> \o StrReplace(Tail(s), pat)

RECURSIVE DigitsValue(_, _)
DigitsValue(s, acc) ==
    IF s = <<>> THEN acc ELSE DigitsValue(Tail(s), 10 * acc + DigitVal(Head(s)))

AllDigits(s) == s # <<>> /\ \A i \in 1..Len(s) : IsDigit(s[i])

NanLiterals == {<<"n", "a", "n">>}
InfLiterals == {<<"i", "n", "f">>, <<"i", "n", "f", "i", "n", "i", "t", "y">>}

HasSign(s) == s # <<>> /\ Head(s) \in {"-", "+"}
Unsigned(s) == IF HasSign(s) THEN Tail(s) ELSE s
SignOf(s) == IF s # <<>> /\ Head(s) = "-" THEN -1 ELSE 1

\* astype(float) on one text: Python's float(), which also accepts the
\* literals nan, inf and infinity; ok = FALSE is the ValueError
ParseFloat(s) ==
    LET u == Unsigned(s) IN
    IF AllDigits(u) THEN [ok |-> TRUE, val |-> Num(SignOf(s) * DigitsValue(u, 0))]
    ELSE IF u \in NanLiterals THEN [ok |-> TRUE, val |-> NaN]
    ELSE IF u \in InfLiterals THEN [ok |-> TRUE, val |-> Inf(SignOf(s))]
    ELSE [ok |-> FALSE, val |-> NaN]

\* the three cleaning chains of the script
CleanPct(cell) == StrReplace(AsStr(cell), <<"%">>)
CleanLatency(cell) == StrReplace(AsStr(cell), <<"m", "s">>)
CleanVolume(cell) == StrReplace(StrReplace(AsStr(cell), <<"$">>), <<",">>)

(***************************************************************************)
(* Configuration of the script                                             *)
(***************************************************************************)
required_columns ==
    <<"Core Symbol", "Maker Stream Name", "% Filled Volume", "Avg. Fill Latency",
      "Total Filled Volume">>

MetricLabels == <<"% Filled Volume", "Avg Fill Latency (ms)", "Total Filled Volume">>

RankColumns ==
    <<"LP Name", "% Filled Volume", "Avg Fill Latency (ms)", "Total Filled Volume">>

Range(s) == {s[i] : i \in 1..Len(s)}

\* a column name with its case folded and its blanks trimmed
Fold(c) ==
    CASE c = "core symbol" -> "Core Symbol"
      [] c = "% Filled Volume " -> "% Filled Volume"
      [] OTHER -> c

\* a membership test that folds case and trims
HasColumnFolded(columns, c) == Fold(c) \in {Fold(x) : x \in columns}

\* DataFrame.columns membership: exact text match
HasColumn(columns, c) == c \in columns

(***************************************************************************)
(* Uploaded files of the model                                             *)
(***************************************************************************)
Symbols == {"EURUSD", "GBPUSD", NASymbol}
\* str "<" on the symbols of the model
SymbolOrder == <<"EURUSD", "GBPUSD">>

PctCells == {<<"7", "%">>, <<"9", "%">>, NA, <<"a", "b", "c", "%">>}
LatencyCells == {<<"5", "m", "s">>, <<"9", "m", "s">>}
VolumeCells == {<<"$", "1", ",", "0", "0", "0">>, <<"$", "8", "0">>}

\* a wider choice of cell texts, used with tables of at most one row
RichPctCells ==
    { <<"7", "%">>, <<"+", "9", "%">>, <<"-", "3", "%">>, <<"7", "%", "%">>, <<"%">>, NA,
      <<"a", "b", "c", "%">>, <<"a", "b", "c">>, <<"i", "n", "f", "%">>,
      <<"n", "a", "n">> }
RichLatencyCells ==
    { <<"5", "m", "s">>, <<"1", "2", "m", "s">>, <<"m", "s", "5", "m", "s">>,
      <<"5", "m">>, <<"-", "i", "n", "f", "m", "s">>, NA }
RichVolumeCells ==
    { <<"$", "1", ",", "0", "0", "0">>, <<"8", "0">>, <<"8", "$", "0", ",">>, <<"$">>,
      <<"$", "i", "n", "f", "i", "n", "i", "t", "y">>, NA }

StreamNames == <<"LP_A", "LP_B", "LP_C", "LP_D", "LP_E">>

FullHeader == Range(required_columns)

Headers ==
    { FullHeader,
      FullHeader \ {"Avg. Fill Latency"},
      (FullHeader \ {"Core Symbol"}) \cup {"core symbol"},
      (FullHeader \ {"% Filled Volume"}) \cup {"% Filled Volume "},
      FullHeader \ {"Maker Stream Name", "Total Filled Volume"} }

\* one data row under header h; a column that is not one of the required
\* five holds blank cells
MakeRow(h, sym, name, pct, lat, vol) ==
    [c \in h |->
        CASE c = "Core Symbol" -> sym
          [] c = "Maker Stream Name" -> name
          [] c = "% Filled Volume" -> pct
          [] c = "Avg. Fill Latency" -> lat
          [] c = "Total Filled Volume" -> vol
          [] OTHER -> NA]

NoTable == [columns |-> {}, rows |-> <<>>]

\* a table of n rows under header h; cells[i] = <<symbol, pct, lat, vol>>
Table(h, n, cells) ==
    [kind |-> "table", columns |-> h,
     rows |-> [i \in 1..n |-> MakeRow(h, cells[i][1], StreamNames[i], cells[i][2],
                                      cells[i][3], cells[i][4])]]

\* no file chosen, or a file pandas cannot decode
NoUploads ==
    { [kind |-> "none", columns |-> {}, rows |-> <<>>],
      [kind |-> "undecodable", columns |-> {}, rows |-> <<>>] }

\* the cells to choose from for column c of a table under header h: a
\* column the header lacks has no cells to choose
CellsOf(h, c, cells) == IF c \in h THEN cells ELSE {NA}

\* file is one of: no file, an undecodable file, a table of at most maxRows
\* rows under one of the headers with its cells drawn from the given sets
IsUpload(file, maxRows, pcts, lats, vols) ==
    \/ file \in NoUploads
    \/ \E h \in Headers, n \in 0..maxRows :
         \E cells \in [1..n -> (IF "Core Symbol" \in h THEN Symbols ELSE {NASymbol})
                               \X CellsOf(h, "% Filled Volume", pcts)
                               \X CellsOf(h, "Avg. Fill Latency", lats)
                               \X CellsOf(h, "Total Filled Volume", vols)] :
            file = Table(h, n, cells)

(***************************************************************************)
(* State of one run of the script                                          *)
(***************************************************************************)
VARIABLES
    uploaded_file,      \* the upload the run works on
    pc,                 \* the step the script is at
    df,                 \* [columns, rows]: the DataFrame
    missing_columns,
    error,              \* what ended the run early, if anything
    metric_options,     \* the labels the metric selectbox offers
    symbol_options,     \* the values the symbol selectbox offers
    selected_symbol,
    selected_metric,
    sym_df,             \* labels of the rows of df kept for the symbol
    best_row,           \* label of the row, 0 before it is set
    worst_row,
    metric_col,
    higher_is_better,
    rank_df,            \* the ranking table, rows carry their label as "index"
    shown               \* names of what the page has emitted so far

vars ==
    <<uploaded_file, pc, df, missing_columns, error, metric_options, symbol_options,
      selected_symbol, selected_metric, sym_df, best_row, worst_row, metric_col,
      higher_is_better, rank_df, shown>>

NoError == [stage |-> "none", kind |-> "none", columns |-> {}, values |-> {}]

InitWith(maxRows, pcts, lats, vols, labels) ==
    /\ IsUpload(uploaded_file, maxRows, pcts, lats, vols)
    /\ pc = "upload"
    /\ df = NoTable
    /\ missing_columns = <<>>
    /\ error = NoError
    /\ metric_options = labels
    /\ symbol_options = <<>>
    /\ selected_symbol = NoneSymbol
    /\ selected_metric = "none"
    /\ sym_df = <<>>
    /\ best_row = 0
    /\ worst_row = 0
    /\ metric_col = "none"
    /\ higher_is_better = FALSE
    /\ rank_df = <<>>
    /\ shown = {}

Init == InitWith(MaxRows, PctCells, LatencyCells, VolumeCells, MetricLabels)

(***************************************************************************)
(* Steps of the script                                                     *)
(***************************************************************************)
\* `if uploaded_file is None`: st.info and st.stop
NoFile ==
    /\ pc = "upload"
    /\ uploaded_file.kind = "none"
    /\ pc' = "stopped"
    /\ shown' = shown \cup {"info"}
    /\ UNCHANGED <<uploaded_file, df, missing_columns, error, metric_options,
                   symbol_options, selected_symbol, selected_metric, sym_df, best_row,
                   worst_row, metric_col, higher_is_better, rank_df>>

\* pd.read_csv / pd.read_excel inside try/except: st.error and st.stop on
\* any exception, st.success otherwise
ReadFile ==
    /\ pc = "upload"
    /\ uploaded_file.kind # "none"
    /\ IF uploaded_file.kind = "undecodable"
       THEN /\ error' = [stage |-> "read", kind |-> "st.error", columns |-> {},
                         values |-> {}]
            /\ shown' = shown \cup {"read_error"}
            /\ pc' = "stopped"
            /\ df' = df
       ELSE /\ df' = [columns |-> uploaded_file.columns, rows |-> uploaded_file.rows]
            /\ shown' = shown \cup {"success"}
            /\ pc' = "validate"
            /\ error' = error
    /\ UNCHANGED <<uploaded_file, missing_columns, metric_options, symbol_options,
                   selected_symbol, selected_metric, sym_df, best_row, worst_row,
                   metric_col, higher_is_better, rank_df>>

\* [c for c in required_columns if c not in df.columns]
MissingColumns(columns) ==
    SelectSeq(required_columns, LAMBDA c : ~HasColumn(columns, c))

\* required columns validation: st.error and st.stop when a column is missing
ValidateColumns ==
    /\ pc = "validate"
    /\ missing_columns' = MissingColumns(df.columns)
    /\ IF missing_columns' # <<>>
       THEN /\ error' = [stage |-> "schema", kind |-> "st.error",
                         columns |-> Range(missing_columns'), values |-> {}]
            /\ shown' = shown \cup {"schema_error"}
            /\ pc' = "stopped"
       ELSE /\ pc' = "normalize"
            /\ UNCHANGED <<error, shown>>
    /\ UNCHANGED <<uploaded_file, df, metric_options, symbol_options, selected_symbol,
                   selected_metric, sym_df, best_row, worst_row, metric_col,
                   higher_is_better, rank_df>>

\* a conversion that never raises (errors="coerce")
FirstBadCoerced(texts) == 0

\* astype(float) converts in row order and raises at the first text that is
\* not a float: the position of that text, 0 when there is none
FirstBad(texts) ==
    IF \A i \in 1..Len(texts) : ParseFloat(texts[i]).ok THEN 0
    ELSE CHOOSE i \in 1..Len(texts) :
            /\ ~ParseFloat(texts[i]).ok
            /\ \A j \in 1..(i - 1) : ParseFloat(texts[j]).ok

\* ValueError("could not convert string to float: '<text>'"): the message
\* carries the text that float() was given and nothing else
ConversionError(text) ==
    [stage |-> "normalize", kind |-> "ValueError", columns |-> {}, values |-> {text}]

\* data cleaning and numeric conversion: the three assignments in order; an
\* uncaught ValueError ends the run
Normalize ==
    /\ pc = "normalize"
    /\ LET pct == [i \in 1..Len(df.rows) |-> CleanPct(df.rows[i]["% Filled Volume"])]
           lat == [i \in 1..Len(df.rows) |-> CleanLatency(df.rows[i]["Avg. Fill Latency"])]
           vol == [i \in 1..Len(df.rows) |-> CleanVolume(df.rows[i]["Total Filled Volume"])]
           bad == IF FirstBad(pct) # 0 THEN pct[FirstBad(pct)]
                  ELSE IF FirstBad(lat) # 0 THEN lat[FirstBad(lat)]
                  ELSE IF FirstBad(vol) # 0 THEN vol[FirstBad(vol)]
                  ELSE <<>>
           failed == FirstBad(pct) # 0 \/ FirstBad(lat) # 0 \/ FirstBad(vol) # 0
       IN IF failed
          THEN /\ error' = ConversionError(bad)
               /\ shown' = shown \cup {"exception"}
               /\ pc' = "crashed"
               /\ df' = df
          ELSE /\ df' = [columns |-> df.columns \cup
                                      {"Filled_Vol_Pct", "Avg_Latency_ms", "Total_Filled_Vol"},
                         rows |-> [i \in 1..Len(df.rows) |->
                                     [c \in df.columns \cup {"Filled_Vol_Pct", "Avg_Latency_ms",
                                                            "Total_Filled_Vol"} |->
                                        CASE c = "Filled_Vol_Pct" -> ParseFloat(pct[i]).val
                                          [] c = "Avg_Latency_ms" -> ParseFloat(lat[i]).val
                                          [] c = "Total_Filled_Vol" -> ParseFloat(vol[i]).val
                                          [] OTHER -> df.rows[i][c]]]]
               /\ pc' = "filters"
               /\ UNCHANGED <<error, shown>>
    /\ UNCHANGED <<uploaded_file, missing_columns, metric_options, symbol_options,
                   selected_symbol, selected_metric, sym_df, best_row, worst_row,
                   metric_col, higher_is_better, rank_df>>

\* Series == value: a missing value equals nothing, itself included
SymbolEq(a, b) == a # NASymbol /\ b # NASymbol /\ a = b

\* Series.unique(): the distinct values, missing values counted as one
Unique(rows, col) == {rows[i][col] : i \in 1..Len(rows)}

\* sorted() of the distinct symbols; comparing a missing value (a float)
\* with a str raises TypeError, which ok = FALSE stands for
Sorted(values) ==
    IF NASymbol \in values /\ values # {NASymbol} THEN [ok |-> FALSE, list |-> <<>>]
    ELSE IF values = {NASymbol} THEN [ok |-> TRUE, list |-> <<NASymbol>>]
    ELSE [ok |-> TRUE, list |-> SelectSeq(SymbolOrder, LAMBDA x : x \in values)]

\* df[df["Core Symbol"] == selected_symbol]: the labels kept, in row order
SymDf(rows, symbol) ==
    SelectSeq([i \in 1..Len(rows) |-> i],
              LAMBDA i : SymbolEq(rows[i]["Core Symbol"], symbol))

\* the two select boxes and the symbol filter
Filters ==
    /\ pc = "filters"
    /\ LET opts == Sorted(Unique(df.rows, "Core Symbol")) IN
       IF ~opts.ok
       THEN /\ error' = [stage |-> "filters", kind |-> "TypeError", columns |-> {},
                         values |-> {}]
            /\ shown' = shown \cup {"exception"}
            /\ pc' = "crashed"
            /\ UNCHANGED <<symbol_options, selected_symbol, selected_metric, sym_df>>
       ELSE /\ symbol_options' = opts.list
            /\ IF opts.list = <<>> THEN selected_symbol' = NoneSymbol
               ELSE selected_symbol' \in Range(opts.list)
            /\ selected_metric' \in Range(metric_options)
            /\ sym_df' = SymDf(df.rows, selected_symbol')
            /\ pc' = "best_worst"
            /\ UNCHANGED <<error, shown>>
    /\ UNCHANGED <<uploaded_file, df, missing_columns, metric_options, best_row,
                   worst_row, metric_col, higher_is_better, rank_df>>

\* an idxmax that returns the last occurrence of the maximum
idxmaxLast(rows, labels, col) ==
    LET val(i) == rows[labels[i]][col]
        cand == {i \in 1..Len(labels) : val(i).k # "nan"}
    IN IF cand = {} THEN 0
       ELSE labels[CHOOSE i \in cand :
                     \A j \in cand : /\ j > i => FloatLt(val(j), val(i))
                                     /\ j < i => ~FloatLt(val(i), val(j))]

\* Series.idxmax(): the label of the first occurrence of the maximum, missing
\* values skipped; 0 stands for the NaN it yields when every value is missing
idxmax(rows, labels, col) ==
    LET val(i) == rows[labels[i]][col]
        cand == {i \in 1..Len(labels) : val(i).k # "nan"}
    IN IF cand = {} THEN 0
       ELSE labels[CHOOSE i \in cand :
                     \A j \in cand : /\ j < i => FloatLt(val(j), val(i))
                                     /\ j > i => ~FloatLt(val(i), val(j))]

\* Series.idxmin(): the same for the minimum
idxmin(rows, labels, col) ==
    LET val(i) == rows[labels[i]][col]
        cand == {i \in 1..Len(labels) : val(i).k # "nan"}
    IN IF cand = {} THEN 0
       ELSE labels[CHOOSE i \in cand :
                     \A j \in cand : /\ j < i => FloatLt(val(i), val(j))
                                     /\ j > i => ~FloatLt(val(j), val(i))]

\* the if / elif / else over selected_metric
MetricCol(metric) ==
    IF metric = "% Filled Volume" THEN "Filled_Vol_Pct"
    ELSE IF metric = "Avg Fill Latency (ms)" THEN "Avg_Latency_ms"
    ELSE "Total_Filled_Vol"

HigherIsBetter(metric) ==
    IF metric = "% Filled Volume" THEN TRUE
    ELSE IF metric = "Avg Fill Latency (ms)" THEN FALSE
    ELSE TRUE

BestLabel(rows, labels, metric) ==
    IF HigherIsBetter(metric) THEN idxmax(rows, labels, MetricCol(metric))
    ELSE idxmin(rows, labels, MetricCol(metric))

WorstLabel(rows, labels, metric) ==
    IF HigherIsBetter(metric) THEN idxmin(rows, labels, MetricCol(metric))
    ELSE idxmax(rows, labels, MetricCol(metric))

\* best / worst calculation.  idxmax of an empty Series raises ValueError;
\* on a Series of missing values only it yields NaN and .loc[NaN] raises
\* KeyError, or raises ValueError itself, depending on the pandas release
BestWorst ==
    /\ pc = "best_worst"
    /\ IF sym_df = <<>> \/ BestLabel(df.rows, sym_df, selected_metric) = 0
       THEN /\ \E kind \in IF sym_df = <<>> THEN {"ValueError"}
                           ELSE {"KeyError", "ValueError"} :
                 error' = [stage |-> "best_worst", kind |-> kind, columns |-> {},
                           values |-> {}]
            /\ shown' = shown \cup {"exception"}
            /\ pc' = "crashed"
            /\ UNCHANGED <<best_row, worst_row, metric_col, higher_is_better>>
       ELSE /\ best_row' = BestLabel(df.rows, sym_df, selected_metric)
            /\ worst_row' = WorstLabel(df.rows, sym_df, selected_metric)
            /\ metric_col' = MetricCol(selected_metric)
            /\ higher_is_better' = HigherIsBetter(selected_metric)
            /\ pc' = "kpi"
            /\ UNCHANGED <<error, shown>>
    /\ UNCHANGED <<uploaded_file, df, missing_columns, metric_options, symbol_options,
                   selected_symbol, selected_metric, sym_df, rank_df>>

\* the two st.metric cards, filled from best_row and worst_row
KpiCards ==
    /\ pc = "kpi"
    /\ shown' = shown \cup {"kpi"}
    /\ pc' = "ranking"
    /\ UNCHANGED <<uploaded_file, df, missing_columns, error, metric_options,
                   symbol_options, selected_symbol, selected_metric, sym_df, best_row,
                   worst_row, metric_col, higher_is_better, rank_df>>

\* sym_df[[...]].rename(columns={...}): the four presentation columns of
\* every kept row; "index" is the row label the frame keeps
Project(rows, labels) ==
    [i \in 1..Len(labels) |->
        [c \in Range(RankColumns) \cup {"index"} |->
            CASE c = "index" -> labels[i]
              [] c = "LP Name" -> rows[labels[i]]["Maker Stream Name"]
              [] c = "% Filled Volume" -> rows[labels[i]]["Filled_Vol_Pct"]
              [] c = "Avg Fill Latency (ms)" -> rows[labels[i]]["Avg_Latency_ms"]
              [] c = "Total Filled Volume" -> rows[labels[i]]["Total_Filled_Vol"]]]

\* the `by` argument of sort_values
SortKey(metric, col) == IF metric \in Range(RankColumns) THEN metric ELSE col

\* a sort direction that follows higher_is_better instead of negating it
AscendingFlipped(hib) == hib

\* ascending=not higher_is_better
Ascending(hib) == ~hib

Perms(n) == {p \in [1..n -> 1..n] : \A i, j \in 1..n : i # j => p[i] # p[j]}

\* DataFrame.sort_values(by, ascending) with the default kind="quicksort",
\* which is not stable: the rows in key order, rows of equal key in any
\* order, rows with a missing key last in their original order
SortValues(frame, by, ascending) ==
    { [i \in 1..Len(frame) |-> frame[p[i]]] : p \in
        { q \in Perms(Len(frame)) :
            \A i, j \in 1..Len(frame) : i < j =>
                LET a == frame[q[i]][by]
                    b == frame[q[j]][by]
                IN /\ a.k = "nan" => b.k = "nan"
                   /\ a.k = "nan" /\ b.k = "nan" => q[i] < q[j]
                   /\ IF ascending THEN ~FloatLt(b, a) ELSE ~FloatLt(a, b) } }

\* the ranking table: projection, rename and sort; a `by` that is not a
\* column of the table raises KeyError
RankingTable ==
    /\ pc = "ranking"
    /\ LET by == SortKey(selected_metric, metric_col) IN
       IF by \notin Range(RankColumns)
       THEN /\ error' = [stage |-> "ranking", kind |-> "KeyError", columns |-> {by},
                         values |-> {}]
            /\ shown' = shown \cup {"exception"}
            /\ pc' = "crashed"
            /\ rank_df' = rank_df
       ELSE /\ rank_df' \in SortValues(Project(df.rows, sym_df), by, Ascending(higher_is_better))
            /\ pc' = "dataframe"
            /\ UNCHANGED <<error, shown>>
    /\ UNCHANGED <<uploaded_file, df, missing_columns, metric_options, symbol_options,
                   selected_symbol, selected_metric, sym_df, best_row, worst_row,
                   metric_col, higher_is_better>>

\* st.dataframe(rank_df)
ShowRanking ==
    /\ pc = "dataframe"
    /\ shown' = shown \cup {"ranking"}
    /\ pc' = "download"
    /\ UNCHANGED <<uploaded_file, df, missing_columns, error, metric_options,
                   symbol_options, selected_symbol, selected_metric, sym_df, best_row,
                   worst_row, metric_col, higher_is_better, rank_df>>

\* st.download_button with rank_df.to_csv(index=False)
Download ==
    /\ pc = "download"
    /\ shown' = shown \cup {"csv"}
    /\ pc' = "done"
    /\ UNCHANGED <<uploaded_file, df, missing_columns, error, metric_options,
                   symbol_options, selected_symbol, selected_metric, sym_df, best_row,
                   worst_row, metric_col, higher_is_better, rank_df>>

Next ==
    \/ NoFile
    \/ ReadFile
    \/ ValidateColumns
    \/ Normalize
    \/ Filters
    \/ BestWorst
    \/ KpiCards
    \/ RankingTable
    \/ ShowRanking
    \/ Download

Spec == Init /\ [][Next]_vars

\* the same script with the metric label taken from a wider set than the
\* select box offers: the best / worst and ranking code as a function of
\* selected_metric
OpenLabels == MetricLabels \o <<"Fill Ratio">>

InitOpen == InitWith(MaxRows, PctCells, LatencyCells, VolumeCells, OpenLabels)

SpecOpen == InitOpen /\ [][Next]_vars

\* the script on tables of at most one row with the wider choice of cells
InitCells == InitWith(1, RichPctCells, RichLatencyCells, RichVolumeCells, MetricLabels)

SpecCells == InitCells /\ [][Next]_vars

(***************************************************************************)
(* Properties                                                              *)
(***************************************************************************)
Outputs == {"kpi", "ranking", "csv"}
CanonicalColumns == {"Filled_Vol_Pct", "Avg_Latency_ms", "Total_Filled_Vol"}

\* the required names that the uploaded header does not contain, exact text
AbsentColumns == {c \in Range(required_columns) : c \notin uploaded_file.columns}

\* nothing of the pipeline after validation has run or been emitted
NothingComputed ==
    /\ df.columns \cap CanonicalColumns = {}
    /\ sym_df = <<>>
    /\ best_row = 0
    /\ worst_row = 0
    /\ rank_df = <<>>
    /\ shown \cap Outputs = {}

\* C1: once validation has run on a table, missing_columns lists exactly the
\* required names absent from the header under exact text match, each once;
\* and a table with an absent required name never gets past validation: the
\* run stops there with nothing normalised, selected, ranked or emitted.
C1_MissingColumnsExact ==
    /\ (uploaded_file.kind = "table" /\ pc \notin {"upload", "validate"}) =>
          /\ Range(missing_columns) = AbsentColumns
          /\ Len(missing_columns) = Cardinality(AbsentColumns)
    /\ (uploaded_file.kind = "table" /\ AbsentColumns # {}) =>
          /\ pc \in {"upload", "validate", "stopped"}
          /\ NothingComputed

\* a header that has the name in another case only: validation has stopped
\* the run and reports the name as missing
C1_Witness ==
    /\ pc = "stopped"
    /\ "core symbol" \in uploaded_file.columns
    /\ missing_columns = <<"Core Symbol">>

\* the cell texts of the model that do not reduce to a float once their
\* decorations are stripped, per numeric-bearing column
BadPctCells == {c \in PctCells \cup RichPctCells : ~ParseFloat(CleanPct(c)).ok}
BadLatencyCells ==
    {c \in LatencyCells \cup RichLatencyCells : ~ParseFloat(CleanLatency(c)).ok}
BadVolumeCells ==
    {c \in VolumeCells \cup RichVolumeCells : ~ParseFloat(CleanVolume(c)).ok}

\* the raw cell of the row in this column is such a text
BadCell(row, col) ==
    CASE col = "% Filled Volume" -> row[col] \in BadPctCells
      [] col = "Avg. Fill Latency" -> row[col] \in BadLatencyCells
      [] col = "Total Filled Volume" -> row[col] \in BadVolumeCells

NumericColumns == {"% Filled Volume", "Avg. Fill Latency", "Total Filled Volume"}

\* the upload is one on which reading, validation or normalisation fails
FatalUpload ==
    \/ uploaded_file.kind = "undecodable"
    \/ /\ uploaded_file.kind = "table"
       /\ \/ AbsentColumns # {}
          \/ \E i \in 1..Len(uploaded_file.rows), col \in NumericColumns :
                BadCell(uploaded_file.rows[i], col)

\* C7: a run on an upload that cannot be read, lacks a required column or
\* has a cell that does not parse, and every state after a read, schema or
\* normalisation error, has no best/worst row, no ranking table, and has
\* emitted neither the KPI cards, the table nor the CSV.  (Stated as: where
\* any of these exists, the upload is not such a one and no such error has
\* occurred.)
C7_NoOutputAfterFatal ==
    (best_row # 0 \/ worst_row # 0 \/ rank_df # <<>> \/ shown \cap Outputs # {}) =>
        /\ ~FatalUpload
        /\ error.stage \notin {"read", "schema", "normalize"}

\* a run that normalisation has ended
C7_Witness == pc = "crashed" /\ error.stage = "normalize"

\* the canonical value of the row with this label under the selected metric
Value(label) == df.rows[label][MetricCol(selected_metric)]

Position(label) == CHOOSE i \in 1..Len(sym_df) : sym_df[i] = label

\* C5: once best and worst are selected, every row of the subset that has
\* the best row's value stands at or after the best row in the subset's
\* order, and likewise for the worst row.
C5_FirstOfTies ==
    best_row # 0 =>
        \A i \in 1..Len(sym_df) :
            /\ Value(sym_df[i]) = Value(best_row) => Position(best_row) <= i
            /\ Value(sym_df[i]) = Value(worst_row) => Position(worst_row) <= i

\* best and worst are selected and another row shares the best row's value
C5_Witness ==
    /\ best_row # 0
    /\ \E l \in Range(sym_df) : l # best_row /\ Value(l) = Value(best_row)

Ranked == pc \in {"dataframe", "download", "done"}

RankKey(i) == rank_df[i][selected_metric]

\* a is strictly more favorable than b under the selected metric
MoreFavorable(a, b) ==
    IF selected_metric = "Avg Fill Latency (ms)" THEN FloatLt(a, b) ELSE FloatLt(b, a)

\* the last ranking row whose key is not a missing value
LastNumbered ==
    CHOOSE i \in 1..Len(rank_df) :
        /\ RankKey(i).k # "nan"
        /\ \A j \in (i + 1)..Len(rank_df) : RankKey(j).k = "nan"

\* C10 as stated: the Best LP row is the first ranking row and the Worst LP
\* row is the last ranking row.
C10_BestFirstWorstLast ==
    Ranked =>
        /\ rank_df[1]["index"] = best_row
        /\ rank_df[Len(rank_df)]["index"] = worst_row

\* C10 amended: the Best LP row has the metric value of the first ranking
\* row and the Worst LP row has the metric value of the last ranking row
\* whose value is not missing; it is the same row whenever no other row of
\* the subset has that value.
C10_SameValueAsRankingEnds ==
    Ranked =>
        /\ RankKey(1) = Value(best_row)
        /\ RankKey(LastNumbered) = Value(worst_row)
        /\ (\A l \in Range(sym_df) \ {best_row} : Value(l) # Value(best_row))
              => rank_df[1]["index"] = best_row
        /\ (\A l \in Range(sym_df) \ {worst_row} : Value(l) # Value(worst_row))
              => rank_df[LastNumbered]["index"] = worst_row

\* a ranking of several rows whose last row is not the Worst LP row
C10_Witness ==
    /\ Ranked
    /\ Len(rank_df) >= 2
    /\ rank_df[Len(rank_df)]["index"] # worst_row

\* the best / worst step has been reached with this subset
PastBestWorst ==
    \/ pc \in {"kpi", "ranking", "dataframe", "download", "done"}
    \/ error.stage \in {"best_worst", "ranking"}

\* C4 as stated: for a non-empty subset the best row is a row of the subset
\* that no row beats, and the worst row a row of the subset that beats none.
C4_ExtremaOfSubset ==
    (PastBestWorst /\ sym_df # <<>>) =>
        /\ best_row \in Range(sym_df)
        /\ worst_row \in Range(sym_df)
        /\ \A l \in Range(sym_df) :
              /\ ~MoreFavorable(Value(l), Value(best_row))
              /\ ~MoreFavorable(Value(worst_row), Value(l))

\* C6 as stated: the ranking is in the metric's order, and rows of equal
\* value keep the relative order they have in the subset.
C6_SortedAndStable ==
    Ranked =>
        \A i, j \in 1..Len(rank_df) : i < j =>
            /\ ~MoreFavorable(RankKey(j), RankKey(i))
            /\ RankKey(i) = RankKey(j) => rank_df[i]["index"] < rank_df[j]["index"]

\* C9 as stated: a symbol offered from the distinct values of Core Symbol
\* scopes at least one row.
C9_SubsetNonEmpty ==
    (/\ pc = "best_worst" \/ PastBestWorst
     /\ selected_symbol \in Unique(df.rows, "Core Symbol")) => sym_df # <<>>

C2_FiniteAfterNormalize ==
    (CanonicalColumns \subseteq df.columns) =>
        \A i \in 1..Len(df.rows), c \in CanonicalColumns : IsFinite(df.rows[i][c])

\* C3 as stated: a normalisation failure names the column of a cell that does
\* not parse and that cell's original text, and no ranking is produced.
C3_ErrorNamesCell ==
    error.stage = "normalize" =>
        /\ rank_df = <<>>
        /\ shown \cap Outputs = {}
        /\ \E i \in 1..Len(uploaded_file.rows), col \in NumericColumns :
              /\ BadCell(uploaded_file.rows[i], col)
              /\ col \in error.columns
              /\ AsStr(uploaded_file.rows[i][col]) \in error.values

====
